---- MODULE Spec2Model ----
(***************************************************************************)
(* A model of the ArrayList of src/ArrayList.c: a resizable array of       *)
(* opaque element handles (void pointers), with the NULL terminator slot   *)
(* the code keeps at arr[n].                                               *)
(*                                                                         *)
(* The struct fields are the variables arr, n and length.  Every function  *)
(* of ArrayList.c is an operator on a record [arr, n, length] that returns *)
(* the fields after the call together with how the call ended (status),    *)
(* what it wrote to stderr (err), what it returned (ret) and the slots it  *)
(* read or wrote (touched).  One action per function applies the operator  *)
(* to the current fields.                                                  *)
(***************************************************************************)
EXTENDS Integers, Sequences, FiniteSets, TLC

VARIABLES arr, n, length, status, stderr, last, prev

vars == <<arr, n, length, status, stderr, last, prev>>

-----------------------------------------------------------------------------
(* Bounds of the model.                                                    *)

\* the largest capacity a caller passes to init
MaxInit == 5
\* the largest capacity a caller passes to resize (within size_t's range)
MaxCap == 4
\* push_back and insert_at are called only while n < MaxN
MaxN == 3
\* the number of distinct non-NULL element handles
NumPtrs == 2

-----------------------------------------------------------------------------
(* The machine: size_t, pointers, the allocator.                           *)

\* the width of size_t in bits (a 16-bit target; the arithmetic is the
\* same at 32 and 64 bits, which TLC's integers cannot hold)
SizeBits == 16
SIZE_MAX == 2^SizeBits - 1
\* the size of a void pointer on that target
PtrSize == 2

\* unsigned arithmetic of size_t wraps modulo SIZE_MAX + 1
SizeT(x) == x % (SIZE_MAX + 1)

NULL == 0
Ptr == 1..NumPtrs
\* the content of a slot the allocator handed out without writing it
Indeterminate == -1

\* the number of slots of a buffer
Slots(a) == Cardinality(DOMAIN a)

\* calloc of nmemb pointer-sized slots: all zero
calloc(nmemb) == [i \in 0..(nmemb - 1) |-> NULL]

\* realloc(a, bytes): a buffer of bytes \div PtrSize slots that keeps the
\* old content up to the smaller of the two sizes; the rest is indeterminate
realloc(a, bytes) ==
    [i \in 0..((bytes \div PtrSize) - 1) |->
        IF i \in DOMAIN a THEN a[i] ELSE Indeterminate]

-----------------------------------------------------------------------------
(* The outcome of a call.                                                  *)

Running(L) ==
    [arr |-> L.arr, n |-> L.n, length |-> L.length,
     status |-> "running", err |-> "", ret |-> 0, touched |-> {}]

\* THROW_ERROR(msg): print msg to stderr and exit(EXIT_FAILURE)
THROW_ERROR(R, msg) == [R EXCEPT !.status = "exited", !.err = msg]

\* a store to slot i of the buffer; outside the buffer it is undefined
Store(R, i, v) ==
    IF R.status # "running" THEN R
    ELSE IF i \notin DOMAIN R.arr
         THEN [R EXCEPT !.status = "undefined", !.touched = @ \cup {i}]
         ELSE [R EXCEPT !.arr[i] = v, !.touched = @ \cup {i}]

\* a load from slot i of the buffer; outside the buffer, or of a slot that
\* was never written, it is undefined
Load(R, i) ==
    IF R.status # "running" THEN R
    ELSE IF i \notin DOMAIN R.arr \/ R.arr[i] = Indeterminate
         THEN [R EXCEPT !.status = "undefined", !.touched = @ \cup {i}]
         ELSE [R EXCEPT !.touched = @ \cup {i}]

\* a copy that runs forward slot by slot, as memcpy may: on the overlapping
\* ranges of insert_at every slot receives the first one
memmove_forward(R, dst, src, bytes) ==
    LET cnt == bytes \div PtrSize
        from == src..(src + cnt - 1)
        to == dst..(dst + cnt - 1)
    IN  IF R.status # "running" \/ cnt = 0 THEN R
        ELSE IF ~((from \cup to) \subseteq DOMAIN R.arr)
             THEN [R EXCEPT !.status = "undefined",
                            !.touched = @ \cup from \cup to]
             ELSE [R EXCEPT !.arr = [i \in DOMAIN R.arr |->
                                       IF i \in to
                                       THEN R.arr[IF dst > src THEN src
                                                  ELSE i - dst + src]
                                       ELSE R.arr[i]],
                            !.touched = @ \cup from \cup to]

\* memmove(&arr[dst], &arr[src], bytes): bytes \div PtrSize slots are copied
\* as if through a temporary buffer
memmove(R, dst, src, bytes) ==
    LET cnt == bytes \div PtrSize
        from == src..(src + cnt - 1)
        to == dst..(dst + cnt - 1)
    IN  IF R.status # "running" \/ cnt = 0 THEN R
        ELSE IF ~((from \cup to) \subseteq DOMAIN R.arr)
             THEN [R EXCEPT !.status = "undefined",
                            !.touched = @ \cup from \cup to]
             ELSE [R EXCEPT !.arr = [i \in DOMAIN R.arr |->
                                       IF i \in to THEN R.arr[i - dst + src]
                                       ELSE R.arr[i]],
                            !.touched = @ \cup from \cup to]

-----------------------------------------------------------------------------
(* The functions of ArrayList.c.                                           *)

\* init(length0): the list after a successful init (a failed malloc or
\* calloc exits before any list exists)
init(length0) ==
    Store([arr |-> calloc(SizeT(length0 + 1)), n |-> 0, length |-> length0,
           status |-> "running", err |-> "", ret |-> 0, touched |-> {}],
          0, NULL)

\* freeArrayList(L): the buffer and the struct are released
freeArrayList(L) ==
    [Running(L) EXCEPT !.arr = << >>, !.status = "freed"]

get_length(L) == L.length

get_number_of_elements(L) == L.n

\* a resize without the test of size against the count
resize_unguarded(L, size, mem) ==
    IF ~mem THEN THROW_ERROR(Running(L), "out of memory")
    ELSE [Running(L) EXCEPT
            !.arr = realloc(L.arr, SizeT(SizeT(size + 1) * PtrSize)),
            !.length = size]

\* resize(L, size); mem says whether realloc succeeds
resize(L, size, mem) ==
    IF size <= L.n THEN Running(L)
    ELSE IF ~mem THEN THROW_ERROR(Running(L), "out of memory")
    ELSE [Running(L) EXCEPT
            !.arr = realloc(L.arr, SizeT(SizeT(size + 1) * PtrSize)),
            !.length = size]

\* a shrink_to_fit that reallocates and forgets to record the new capacity
shrink_to_fit_stale(L, mem) ==
    IF L.n = L.length THEN Running(L)
    ELSE IF ~mem THEN THROW_ERROR(Running(L), "out of memory")
    ELSE [Running(L) EXCEPT
            !.arr = realloc(L.arr, SizeT(SizeT(L.n + 1) * PtrSize))]

\* shrink_to_fit(L); mem says whether realloc succeeds
shrink_to_fit(L, mem) ==
    IF L.n = L.length THEN Running(L)
    ELSE IF ~mem THEN THROW_ERROR(Running(L), "out of memory")
    ELSE [Running(L) EXCEPT
            !.arr = realloc(L.arr, SizeT(SizeT(L.n + 1) * PtrSize)),
            !.length = L.n]

\* the count after list->n++ or list->n--
Bump(R, d) ==
    IF R.status # "running" THEN R ELSE [R EXCEPT !.n = SizeT(@ + d)]

\* a push_back that doubles the capacity without the + 1
push_back_double(L, element, mem) ==
    LET R0 == IF L.n = L.length
              THEN resize(L, SizeT(L.length * 2), mem)
              ELSE Running(L)
        R1 == Store(R0, R0.n, element)
        R2 == Bump(R1, 1)
    IN  Store(R2, R2.n, NULL)

\* push_back(L, element)
push_back(L, element, mem) ==
    LET R0 == IF L.n = L.length
              THEN resize(L, SizeT(L.length * 2 + 1), mem)
              ELSE Running(L)
        R1 == Store(R0, R0.n, element)
        R2 == Bump(R1, 1)
    IN  Store(R2, R2.n, NULL)

\* a pop_back that clears the last slot and keeps the count
pop_back_keep_count(L) ==
    IF L.n = 0 THEN [Running(L) EXCEPT !.err = "Empty list"]
    ELSE Store(Running(L), L.n - 1, NULL)

\* a pop_back for which the empty list is fatal, as the range errors are
pop_back_fatal(L) ==
    IF L.n = 0 THEN THROW_ERROR(Running(L), "Empty list")
    ELSE LET R1 == Bump(Running(L), -1)
         IN  Store(R1, R1.n, NULL)

\* pop_back(L)
pop_back(L) ==
    IF L.n = 0 THEN [Running(L) EXCEPT !.err = "Empty list"]
    ELSE LET R1 == Bump(Running(L), -1)
         IN  Store(R1, R1.n, NULL)

\* an insert_at that grows the list before it tests the index
insert_at_grow_first(L, element, index, mem) ==
    LET R0 == IF L.n = L.length
              THEN resize(L, SizeT(L.length * 2 + 1), mem)
              ELSE Running(L)
    IN  IF R0.status # "running" THEN R0
        ELSE IF index > R0.n THEN THROW_ERROR(R0, "Index out of range")
        ELSE LET R1 == memmove(R0, SizeT(index + 1), index,
                               SizeT(SizeT(R0.n - index) * PtrSize))
                 R2 == Store(R1, index, element)
                 R3 == Bump(R2, 1)
             IN  Store(R3, R3.n, NULL)

\* insert_at(L, element, index)
insert_at(L, element, index, mem) ==
    IF index > L.n THEN THROW_ERROR(Running(L), "Index out of range")
    ELSE LET R0 == IF L.n = L.length
                   THEN resize(L, SizeT(L.length * 2 + 1), mem)
                   ELSE Running(L)
             R1 == memmove(R0, SizeT(index + 1), index,
                           SizeT(SizeT(R0.n - index) * PtrSize))
             R2 == Store(R1, index, element)
             R3 == Bump(R2, 1)
         IN  Store(R3, R3.n, NULL)

\* the loop of remove_at from position i: arr[i] = arr[i + 1] while i < n - 1
RECURSIVE remove_loop(_, _)
remove_loop(R, i) ==
    IF R.status # "running" \/ ~(i < SizeT(R.n - 1)) THEN R
    ELSE LET R1 == Load(R, i + 1)
         IN  remove_loop(IF R1.status = "running"
                         THEN Store(R1, i, R1.arr[i + 1]) ELSE R1,
                         SizeT(i + 1))

\* remove_at(L, index)
remove_at(L, index) ==
    IF index >= L.n THEN THROW_ERROR(Running(L), "Index out of range")
    ELSE LET R1 == remove_loop(Running(L), index)
             R2 == Bump(R1, -1)
         IN  Store(R2, R2.n, NULL)

\* the comparators a caller passes to find: 0 means equal
Comparators == {"order", "parity", "never", "always"}

cmp(c, a, b) ==
    CASE c = "order" -> IF a < b THEN -1 ELSE IF a > b THEN 1 ELSE 0
      [] c = "parity" -> (a % 2) - (b % 2)
      [] c = "never" -> 1
      [] OTHER -> 0

\* the loop of find from position i
RECURSIVE find_loop(_, _, _, _)
find_loop(R, element, c, i) ==
    IF R.status # "running" THEN R
    ELSE IF ~(i < R.n) THEN [R EXCEPT !.ret = -1]
    ELSE LET R1 == Load(R, i)
         IN  IF R1.status # "running" THEN R1
             ELSE IF cmp(c, R1.arr[i], element) = 0 THEN [R1 EXCEPT !.ret = i]
             ELSE find_loop(R1, element, c, SizeT(i + 1))

\* a find whose loop runs to i <= n and so compares the terminator slot
RECURSIVE find_loop_inclusive(_, _, _, _)
find_loop_inclusive(R, element, c, i) ==
    IF R.status # "running" THEN R
    ELSE IF ~(i <= R.n) THEN [R EXCEPT !.ret = -1]
    ELSE LET R1 == Load(R, i)
         IN  IF R1.status # "running" THEN R1
             ELSE IF cmp(c, R1.arr[i], element) = 0 THEN [R1 EXCEPT !.ret = i]
             ELSE find_loop_inclusive(R1, element, c, SizeT(i + 1))

find_inclusive(L, element, c) == find_loop_inclusive(Running(L), element, c, 0)

\* find(L, element, cmp)
find(L, element, c) == find_loop(Running(L), element, c, 0)

-----------------------------------------------------------------------------
(* The state machine: a caller that makes one call after another.          *)

\* the struct's fields
Fields == [arr |-> arr, n |-> n, length |-> length]

\* the handles a caller stores
Elements == Ptr
\* the capacities a caller asks of init and of resize
InitSizes == 0..MaxInit
Sizes == 0..MaxCap
\* the indices a caller passes: size_t is unsigned, so none is negative
Indices == 0..MaxN
\* requests whose byte count (size + 1) * PtrSize no longer fits size_t
WrapSizes == {(SIZE_MAX + 1) \div PtrSize, (SIZE_MAX + 1) \div PtrSize + 1}

\* the allocator's answer is drawn only for a call that reaches realloc
Allocator(asked) == IF asked THEN BOOLEAN ELSE {TRUE}

\* a call: the function and its arguments (0 for those it does not take)
Call(op, element, index, size, c) ==
    [op |-> op, element |-> element, index |-> index, size |-> size, c |-> c,
     before |-> << >>, ret |-> 0, touched |-> {}]

\* the call c is made on the current list and ends as R says; last keeps the
\* call with the fields before it, prev the function called before that
Step(c, R) ==
    /\ status = "running"
    /\ arr' = R.arr
    /\ n' = R.n
    /\ length' = R.length
    /\ status' = R.status
    /\ stderr' = R.err
    /\ last' = [c EXCEPT !.before = Fields, !.ret = R.ret,
                         !.touched = R.touched]
    /\ prev' = last.op

Init ==
    \E length0 \in InitSizes :
        LET R == init(length0)
        IN  /\ arr = R.arr
            /\ n = R.n
            /\ length = R.length
            /\ status = R.status
            /\ stderr = R.err
            /\ last = [Call("init", 0, 0, length0, "") EXCEPT
                         !.touched = R.touched]
            /\ prev = "none"

call_freeArrayList ==
    Step(Call("freeArrayList", 0, 0, 0, ""), freeArrayList(Fields))

call_push_back ==
    \E element \in Elements, mem \in Allocator(n = length) :
        /\ n < MaxN
        /\ Step(Call("push_back", element, 0, 0, ""),
                push_back(Fields, element, mem))

call_pop_back ==
    Step(Call("pop_back", 0, 0, 0, ""), pop_back(Fields))

call_shrink_to_fit ==
    \E mem \in Allocator(n # length) :
        Step(Call("shrink_to_fit", 0, 0, 0, ""), shrink_to_fit(Fields, mem))

call_resize(S) ==
    \E size \in S : \E mem \in Allocator(size > n) :
        Step(Call("resize", 0, 0, size, ""), resize(Fields, size, mem))

call_insert_at ==
    \E element \in Elements, index \in Indices :
      \E mem \in Allocator(index <= n /\ n = length) :
        /\ n < MaxN
        /\ Step(Call("insert_at", element, index, 0, ""),
                insert_at(Fields, element, index, mem))

call_remove_at ==
    \E index \in Indices :
        Step(Call("remove_at", 0, index, 0, ""), remove_at(Fields, index))

call_find ==
    \E element \in Elements, c \in Comparators :
        Step(Call("find", element, 0, 0, c), find(Fields, element, c))

Next ==
    \/ call_freeArrayList
    \/ call_push_back
    \/ call_pop_back
    \/ call_shrink_to_fit
    \/ call_resize(Sizes)
    \/ call_insert_at
    \/ call_remove_at
    \/ call_find

Spec == Init /\ [][Next]_vars

\* the same caller, who may also ask resize for a capacity whose byte count
\* wraps around in size_t
NextWrap ==
    \/ call_freeArrayList
    \/ call_push_back
    \/ call_pop_back
    \/ call_shrink_to_fit
    \/ call_resize(Sizes \cup WrapSizes)
    \/ call_insert_at
    \/ call_remove_at
    \/ call_find

SpecWrap == Init /\ [][NextWrap]_vars

-----------------------------------------------------------------------------
(* What the claims speak of.                                               *)

\* the live elements of a list, in index order
Live(L) == [i \in 1..L.n |-> L.arr[i - 1]]

\* the fields before the last call
before == last.before

\* the last call was f and it returned
Returned(f) == last.op = f /\ status = "running"

\* the last call ended the program because realloc failed
OutOfMemory == status = "exited" /\ stderr = "out of memory"

\* the last call ended the program with the range error
IndexOutOfRange == status = "exited" /\ stderr = "Index out of range"

\* C1: after every call of any sequence of calls, whatever the arguments
\* and the starting capacity, the count n is at most the capacity length.
C1_CountWithinCapacity == n <= length

\* a push_back that found the list full has grown it from 0 slots to 1 and
\* filled it again
C1_Witness ==
    /\ Returned("push_back")
    /\ before.n = before.length
    /\ n = length

\* C2: an insert_at(e, i) with i <= n that returns leaves s[0..i) ++ <e> ++
\* s[i..n) and count n + 1, also when it had to grow first, and fails only
\* when realloc does; a remove_at(i) with i < n returns and leaves
\* s[0..i) ++ s[i+1..n) and count n - 1.
C2_OrderPreserved ==
    LET s == Live(before)
        i == last.index
    IN  /\ (last.op = "insert_at" /\ i <= before.n) =>
              /\ status = "running" \/ (OutOfMemory /\ before.n = before.length)
              /\ status = "running" =>
                    /\ n = before.n + 1
                    /\ Live(Fields) = SubSeq(s, 1, i) \o <<last.element>>
                                        \o SubSeq(s, i + 1, before.n)
        /\ (last.op = "remove_at" /\ i < before.n) =>
              /\ status = "running"
              /\ n = before.n - 1
              /\ Live(Fields) = SubSeq(s, 1, i) \o SubSeq(s, i + 2, before.n)

\* an insert_at strictly inside a full list: it grows, then shifts
C2_Witness ==
    /\ Returned("insert_at")
    /\ 0 < last.index /\ last.index < before.n
    /\ before.n = before.length
    /\ Live(Fields)[last.index + 2] # Live(Fields)[last.index]

\* C3: a push_back fails only when realloc does, never for want of
\* capacity, and stores its element at index count; a push_back or
\* insert_at made when count = capacity first makes the capacity exactly
\* 2 * capacity + 1, which is larger; one made when count < capacity
\* returns and leaves the capacity as it was.
C3_Growth ==
    LET appends == last.op = "push_back"
                     \/ (last.op = "insert_at" /\ last.index <= before.n)
    IN  /\ last.op = "push_back" =>
              /\ status = "running" \/ (OutOfMemory /\ before.n = before.length)
              /\ status = "running" =>
                    /\ get_number_of_elements(Fields) = before.n + 1
                    /\ arr[before.n] = last.element
        /\ (appends /\ status = "running" /\ before.n = before.length) =>
              /\ get_length(Fields) = 2 * before.length + 1
              /\ get_length(Fields) > before.length
        /\ (appends /\ before.n < before.length) =>
              /\ status = "running"
              /\ get_length(Fields) = before.length

\* the second growth of a list that began empty: capacity 1 becomes 3
C3_Witness ==
    /\ Returned("push_back")
    /\ before.n = 1 /\ before.length = 1
    /\ length = 3 /\ n = 2

\* the scenario of main.c: init(5) and three push_back give size 3, capacity 5
C3_MainReached ==
    /\ Returned("push_back")
    /\ prev = "push_back"
    /\ get_number_of_elements(Fields) = 3
    /\ get_length(Fields) = 5

\* C4: resize never shrinks: the capacity after resize(size) is at least
\* the capacity before; the call does nothing when size <= count and
\* otherwise makes the capacity exactly size; count and the live elements
\* stay as they were.
C4_ResizeNeverShrinks ==
    Returned("resize") =>
        /\ length >= before.length
        /\ last.size <= before.n => Fields = before
        /\ last.size > before.n => length = last.size
        /\ n = before.n
        /\ Live(Fields) = Live(before)

\* C5: find returns the lowest index below count whose element compares
\* equal to the target, and -1 exactly when there is none (so on an empty
\* list); it reads no slot at or beyond count and changes no field.
C5_FindLowest ==
    last.op = "find" =>
        LET hits == {i \in 0..(n - 1) : cmp(last.c, arr[i], last.element) = 0}
        IN  /\ status = "running"
            /\ Fields = before
            /\ hits = {} => last.ret = -1
            /\ hits # {} => last.ret \in hits /\ \A i \in hits : last.ret <= i
            /\ last.touched \subseteq 0..(n - 1)

\* find answers with the first of two matching elements, past a mismatch
C5_Witness ==
    /\ Returned("find")
    /\ n = 3
    /\ last.ret = 1
    /\ cmp(last.c, arr[0], last.element) # 0
    /\ cmp(last.c, arr[2], last.element) = 0

\* C6: a push_back(x) that returns, followed at once by pop_back, gives
\* back the count and the live elements from before the push_back, also
\* when the push_back had to grow the list.
C6_PushPopRoundTrip ==
    [][(Returned("push_back") /\ last'.op = "pop_back") =>
          /\ status' = "running"
          /\ n' = before.n
          /\ Live(Fields)' = Live(before)]_vars

\* a pop_back right after a push_back, on a list that holds elements
C6_Witness ==
    /\ Returned("pop_back")
    /\ prev = "push_back"
    /\ n > 0
    /\ stderr = ""

\* C7: a shrink_to_fit that returns leaves capacity = count with the count
\* and the live elements as they were; a second shrink_to_fit right after
\* it returns and changes nothing at all.
C7_ShrinkIdempotent ==
    /\ Returned("shrink_to_fit") =>
          /\ length = n
          /\ n = before.n
          /\ Live(Fields) = Live(before)
    /\ (last.op = "shrink_to_fit" /\ prev = "shrink_to_fit") =>
          /\ status = "running"
          /\ Fields = before

\* two shrink_to_fit in a row on a list that holds elements
C7_Witness ==
    /\ Returned("shrink_to_fit")
    /\ prev = "shrink_to_fit"
    /\ n > 0

\* C8: pop_back always returns; on an empty list it reports the empty list
\* and changes no field; otherwise it removes the element at count - 1 and
\* leaves the capacity and the elements below it as they were.
C8_PopBack ==
    last.op = "pop_back" =>
        /\ status = "running"
        /\ before.n = 0 => Fields = before /\ stderr = "Empty list"
        /\ before.n > 0 =>
              /\ n = before.n - 1
              /\ length = before.length
              /\ Live(Fields) = SubSeq(Live(before), 1, before.n - 1)
              /\ stderr = ""

\* a pop_back on an empty list that has capacity
C8_Witness ==
    /\ Returned("pop_back")
    /\ before.n = 0
    /\ before.length > 0
    /\ stderr = "Empty list"

\* C9: insert_at with index > count and remove_at with index >= count end
\* the program with the range error and every field as it was; insert_at
\* with index = count is accepted and does what push_back does.
C9_RangeErrors ==
    /\ (last.op = "insert_at" /\ last.index > before.n) =>
          IndexOutOfRange /\ Fields = before
    /\ (last.op = "remove_at" /\ last.index >= before.n) =>
          IndexOutOfRange /\ Fields = before
    /\ (last.op = "insert_at" /\ last.index = before.n) =>
          /\ ~IndexOutOfRange
          /\ status = "running" =>
                LET R == push_back(before, last.element, TRUE)
                IN  Fields = [arr |-> R.arr, n |-> R.n, length |-> R.length]

\* an insert_at past the end of a full list: the error, and no growth
C9_Witness ==
    /\ last.op = "insert_at"
    /\ last.index > before.n
    /\ before.n = before.length
    /\ IndexOutOfRange

\* C10: the buffer has exactly length + 1 slots, every slot a call reads or
\* writes has an index <= length, no access is undefined, and after every
\* call the slot arr[n] holds NULL.
C10_MemorySafe ==
    /\ status # "undefined"
    /\ status \in {"running", "exited"} =>
          /\ Slots(arr) = length + 1
          /\ last.touched \subseteq 0..length
          /\ n \in DOMAIN arr /\ arr[n] = NULL

====
